---- MODULE Spec2Model ----
(***************************************************************************)
(* Query routing (x/wasm/internal/keeper/querier.go) and message           *)
(* validation (types: MsgStoreCode, MsgInstantiateContract,                *)
(* MsgExecuteContract) of wasmd, as a state machine.                       *)
(*                                                                         *)
(* The keeper's store is fixed by Init (this code never writes it).  One   *)
(* call is in progress at a time: a query runs to completion in one step,  *)
(* MsgStoreCode.ValidateBasic may stop inside http.Get until the remote    *)
(* endpoint answers.                                                       *)
(*                                                                         *)
(* Byte strings and Go strings are TLA+ strings; a []byte response is a    *)
(* sequence of JSON tokens.  A Go slice is [nil, elems], a pointer result  *)
(* is a record with a nil flag, an error is [kind, msg] with kind "nil"    *)
(* for no error.                                                           *)
(***************************************************************************)
EXTENDS Integers, Sequences, FiniteSets, TLC

VARIABLES
    codeIDs,        \* keeper: the code IDs for which CodeInfo is stored
    storeKeys,      \* keeper: indices of the keys in the contract's partition
    pc,             \* "idle" | "probing" (inside http.Get) | "done" | "panicked"
    call,           \* the call in progress or just finished, with its inputs
    inner,          \* what newQuerier's closure produced (queries only)
    out,            \* what the call returned to its caller
    probeIssued     \* http.Get was called during the current validation

vars == <<codeIDs, storeKeys, pc, call, inner, out, probeIssued>>

---------------------------------------------------------------------------
(* Bounds *)

MaxCodeID == 4
MaxKeys == 2
MaxPathLen == 3
MaxSourceLen == 2
MaxCoins == 2

---------------------------------------------------------------------------
(* Constants of querier.go *)

QueryListContracts == "list-contracts"
QueryGetContract == "contract-info"
QueryGetContractState == "contract-state"
QueryGetCode == "code"
QueryListCode == "list-code"

QueryMethodContractStateSmart == "smart"
QueryMethodContractStateAll == "all"
QueryMethodContractStateRaw == "raw"

debug == FALSE

---------------------------------------------------------------------------
(* Go values *)

NoErr == [kind |-> "nil", msg |-> ""]
Err(kind, msg) == [kind |-> kind, msg |-> msg]

NilBytes == [nil |-> TRUE, b |-> <<>>]
Bytes(b) == [nil |-> FALSE, b |-> b]

NilSlice == [nil |-> TRUE, elems |-> <<>>]
EmptySlice == [nil |-> FALSE, elems |-> <<>>]
GoAppend(s, e) == [nil |-> FALSE, elems |-> Append(s.elems, e)]

---------------------------------------------------------------------------
(* sdk.AccAddressFromBech32 and AccAddress.String, on the address strings  *)
(* of the model: the address of the one contract the keeper holds, the     *)
(* address of a plain account, the empty string (which decodes to the      *)
(* empty address without error) and a malformed string.                    *)

TheContract == "acc-A"
OtherAccount == "acc-B"

AddrStrings == {"cosmos1aaa", "cosmos1bbb", "", "notbech32"}

AccAddressFromBech32(bech) ==
    CASE bech = "cosmos1aaa" -> [addr |-> TheContract, err |-> NoErr]
      [] bech = "cosmos1bbb" -> [addr |-> OtherAccount, err |-> NoErr]
      [] bech = "" -> [addr |-> "", err |-> NoErr]
      [] OTHER -> [addr |-> "", err |-> Err("bech32", "decoding bech32 failed")]

AccAddressString(addr) ==
    CASE addr = TheContract -> "cosmos1aaa"
      [] addr = OtherAccount -> "cosmos1bbb"
      [] OTHER -> ""

(* strconv.ParseUint(s, 10, 64) on the code-ID strings of the model *)
CodeIDStrings == {"1", "3", "x"}

ParseUint(s) ==
    CASE s = "1" -> [n |-> 1, err |-> NoErr]
      [] s = "3" -> [n |-> 3, err |-> NoErr]
      [] OTHER -> [n |-> 0, err |-> Err("strconv", "invalid syntax")]

---------------------------------------------------------------------------
(* The keeper, as the querier sees it *)

KeyName(i) == "k" \o ToString(i)
ValueName(i) == "v" \o ToString(i)
CreatorOf(id) == IF id % 2 = 1 THEN TheContract ELSE OtherAccount
HashOf(id) == "hash" \o ToString(id)
WasmOf(id) == "wasm" \o ToString(id)

Payloads == {KeyName(1), KeyName(MaxKeys + 1)}

RECURSIVE SortedSeq(_, _)
SortedSeq(S, n) ==
    IF n = 0 THEN <<>>
    ELSE IF n \in S THEN Append(SortedSeq(S, n - 1), n)
    ELSE SortedSeq(S, n - 1)

GetCodeInfo(id) ==
    IF id \in codeIDs
    THEN [nil |-> FALSE, Creator |-> CreatorOf(id), CodeHash |-> HashOf(id)]
    ELSE [nil |-> TRUE, Creator |-> "", CodeHash |-> ""]

GetByteCode(id) ==
    IF id \in codeIDs
    THEN [code |-> Bytes(<<WasmOf(id)>>), err |-> NoErr]
    ELSE [code |-> NilBytes, err |-> Err("KeeperError", "code not found")]

GetContractInfo(addr) ==
    IF addr = TheContract
    THEN [nil |-> FALSE, CodeID |-> 1, Creator |-> OtherAccount]
    ELSE [nil |-> TRUE, CodeID |-> 0, Creator |-> ""]

(* ListContractInfo visits every contract in the keeper's order. *)
ListContractInfo == <<TheContract>>

(* GetContractState: the iterator over the contract's partition, in key   *)
(* order, as the sequence of (Key(), Value()) it yields.                  *)
GetContractState(addr) ==
    IF addr = TheContract
    THEN [i \in 1..Len(SortedSeq(storeKeys, MaxKeys)) |->
            [Key |-> KeyName(SortedSeq(storeKeys, MaxKeys)[i]),
             Value |-> ValueName(SortedSeq(storeKeys, MaxKeys)[i])]]
    ELSE <<>>

QueryRaw(addr, key) ==
    IF addr = TheContract /\ \E i \in storeKeys : KeyName(i) = key
    THEN GoAppend(EmptySlice,
            [Key |-> key,
             Value |-> ValueName(CHOOSE i \in storeKeys : KeyName(i) = key)])
    ELSE EmptySlice

(* QuerySmart runs the contract in the VM: its answer is an input. *)
SmartReplies ==
    { [res |-> Bytes(<<"vm-bytes">>), err |-> NoErr],
      [res |-> Bytes(<<>>), err |-> NoErr],
      [res |-> NilBytes, err |-> Err("KeeperError", "vm query failed")] }

---------------------------------------------------------------------------
(* json.MarshalIndent, as the token sequence of the document it writes.    *)
(* A nil slice or nil pointer encodes as null, an empty non-nil slice as   *)
(* [].  For the types marshalled here it cannot fail.                      *)

Quote(s) == "\"" \o s \o "\""

RECURSIVE Flatten(_)
Flatten(ss) == IF ss = <<>> THEN <<>> ELSE Head(ss) \o Flatten(Tail(ss))

(* elemsJSON[i] is the encoding of s.elems[i] *)
MarshalSlice(s, elemsJSON) ==
    IF s.nil THEN <<"null">>
    ELSE IF s.elems = <<>> THEN <<"[]">>
    ELSE <<"[">> \o Flatten(elemsJSON) \o <<"]">>

ModelJSON(m) == <<"{", "key", Quote(m.Key), "value", Quote(m.Value), "}">>
ListCodeResponseJSON(e) ==
    <<"{", "id", ToString(e.ID), "creator", Quote(AccAddressString(e.Creator)),
      "code_hash", Quote(e.CodeHash), "}">>
StringJSON(s) == <<Quote(s)>>

MarshalModels(s) ==
    MarshalSlice(s, [i \in 1..Len(s.elems) |-> ModelJSON(s.elems[i])])
MarshalListCode(s) ==
    MarshalSlice(s, [i \in 1..Len(s.elems) |-> ListCodeResponseJSON(s.elems[i])])
MarshalStrings(s) ==
    MarshalSlice(s, [i \in 1..Len(s.elems) |-> StringJSON(s.elems[i])])
MarshalContractInfo(info) ==
    IF info.nil THEN <<"null">>
    ELSE <<"{", "code_id", ToString(info.CodeID),
           "creator", Quote(AccAddressString(info.Creator)), "}">>
MarshalGetCodeResponse(code) ==
    <<"{", "code">> \o (IF code.nil THEN <<"null">> ELSE code.b) \o <<"}">>

---------------------------------------------------------------------------
(* Handlers.  A handler's outcome records, besides the (bytes, error) it   *)
(* returns, the keeper calls it made (klog), whether it ran                *)
(* json.MarshalIndent, and the Go value it marshalled (data).              *)

KCall(op, addr, data, id) == [op |-> op, addr |-> addr, data |-> data, id |-> id]

Returned(res, err, klog, marshalled, data) ==
    [ret |-> TRUE, res |-> res, err |-> err, klog |-> klog,
     marshalled |-> marshalled, data |-> data]

(* A run-time panic (index out of range): nothing is returned. *)
Panicked ==
    [ret |-> FALSE, res |-> NilBytes, err |-> NoErr, klog |-> <<>>,
     marshalled |-> FALSE, data |-> NilSlice]

queryContractInfo(bech) ==
    LET d == AccAddressFromBech32(bech)
    IN  IF d.err /= NoErr
        THEN Returned(NilBytes, Err("ErrUnknownRequest", d.err.msg), <<>>, FALSE, NilSlice)
        ELSE Returned(Bytes(MarshalContractInfo(GetContractInfo(d.addr))), NoErr,
                      <<KCall("GetContractInfo", d.addr, "", 0)>>, TRUE, NilSlice)

RECURSIVE AppendAddrs(_, _)
AppendAddrs(addrs, visit) ==
    IF visit = <<>> THEN addrs
    ELSE AppendAddrs(GoAppend(addrs, AccAddressString(Head(visit))), Tail(visit))

queryContractList ==
    LET addrs == AppendAddrs(NilSlice, ListContractInfo)
    IN  Returned(Bytes(MarshalStrings(addrs)), NoErr,
                 <<KCall("ListContractInfo", "", "", 0)>>, TRUE, addrs)

RECURSIVE IterateAll(_, _)
IterateAll(resultData, iter) ==
    IF iter = <<>> THEN resultData
    ELSE IterateAll(GoAppend(resultData, [Key |-> Head(iter).Key, Value |-> Head(iter).Value]),
                    Tail(iter))

AllResult_NoEmpty(iter) == IterateAll(NilSlice, iter)

AllResult(iter) ==
    LET resultData == IterateAll(NilSlice, iter)
    IN  IF resultData.nil THEN EmptySlice ELSE resultData

SmartResult_Indented(contractAddr, data, smart) ==
    IF smart.err /= NoErr
    THEN Returned(NilBytes, smart.err,
                  <<KCall("QuerySmart", contractAddr, data, 0)>>, FALSE, NilSlice)
    ELSE Returned(Bytes(<<"{", "smart">> \o smart.res.b \o <<"}">>), NoErr,
                  <<KCall("QuerySmart", contractAddr, data, 0)>>, TRUE, NilSlice)

(* case QueryMethodContractStateSmart: return keeper.QuerySmart(...) *)
SmartResult(contractAddr, data, smart) ==
    Returned(smart.res, smart.err,
             <<KCall("QuerySmart", contractAddr, data, 0)>>, FALSE, NilSlice)

queryContractState(bech, queryMethod, data, smart) ==
    LET d == AccAddressFromBech32(bech)
        contractAddr == d.addr
        marshal(resultData, klog) ==
            Returned(Bytes(MarshalModels(resultData)), NoErr, klog, TRUE, resultData)
    IN  IF d.err /= NoErr
        THEN Returned(NilBytes, Err("ErrInvalidAddress", bech), <<>>, FALSE, NilSlice)
        ELSE CASE queryMethod = QueryMethodContractStateAll ->
                    marshal(AllResult(GetContractState(contractAddr)),
                            <<KCall("GetContractState", contractAddr, "", 0)>>)
               [] queryMethod = QueryMethodContractStateRaw ->
                    marshal(QueryRaw(contractAddr, data),
                            <<KCall("QueryRaw", contractAddr, data, 0)>>)
               [] queryMethod = QueryMethodContractStateSmart ->
                    SmartResult(contractAddr, data, smart)
               [] OTHER ->
                    Returned(NilBytes, Err("ErrUnknownRequest", queryMethod), <<>>, FALSE, NilSlice)

queryCode(codeIDstr) ==
    LET p == ParseUint(codeIDstr)
        c == GetByteCode(p.n)
        klog == <<KCall("GetByteCode", "", "", p.n)>>
    IN  IF p.err /= NoErr
        THEN Returned(NilBytes, Err("ErrUnknownRequest", "invalid codeID"), <<>>, FALSE, NilSlice)
        ELSE IF c.err /= NoErr
        THEN Returned(NilBytes, Err(c.err.kind, "loading wasm code"), klog, FALSE, NilSlice)
        ELSE Returned(Bytes(MarshalGetCodeResponse(c.code)), NoErr, klog, TRUE, NilSlice)

RECURSIVE codeListScan_FromZero(_, _, _)
codeListScan_FromZero(i, info, klog) ==
    LET res == GetCodeInfo(i)
        klog2 == Append(klog, KCall("GetCodeInfo", "", "", i))
    IN  IF res.nil
        THEN [info |-> info, klog |-> klog2]
        ELSE codeListScan_FromZero(i + 1,
                GoAppend(info, [ID |-> i, Creator |-> res.Creator, CodeHash |-> res.CodeHash]),
                klog2)

(* The scan of queryCodeList: i counts up from 1 until GetCodeInfo(i) is   *)
(* nil.  (i is a uint64 in the code; the scan ends long before it wraps.)  *)
RECURSIVE codeListScan(_, _, _)
codeListScan(i, info, klog) ==
    LET j == i + 1
        res == GetCodeInfo(j)
        klog2 == Append(klog, KCall("GetCodeInfo", "", "", j))
    IN  IF res.nil
        THEN [info |-> info, klog |-> klog2]
        ELSE codeListScan(j,
                GoAppend(info, [ID |-> j, Creator |-> res.Creator, CodeHash |-> res.CodeHash]),
                klog2)

queryCodeList ==
    LET s == codeListScan(0, NilSlice, <<>>)
    IN  Returned(Bytes(MarshalListCode(s.info)), NoErr, s.klog, TRUE, s.info)

UnknownEndpoint ==
    Returned(NilBytes, Err("ErrUnknownRequest", "unknown data query endpoint"),
             <<>>, FALSE, NilSlice)

(* The closure of newQuerier.  path[0] and path[1] are indexed without a   *)
(* length check: Go panics when the index is out of range.                 *)
newQuerier(path, data, smart) ==
    IF Len(path) < 1 THEN Panicked
    ELSE CASE path[1] = QueryGetContract ->
                IF Len(path) < 2 THEN Panicked ELSE queryContractInfo(path[2])
           [] path[1] = QueryListContracts -> queryContractList
           [] path[1] = QueryGetContractState ->
                IF Len(path) < 3 THEN UnknownEndpoint
                ELSE queryContractState(path[2], path[3], data, smart)
           [] path[1] = QueryGetCode ->
                IF Len(path) < 2 THEN Panicked ELSE queryCode(path[2])
           [] path[1] = QueryListCode -> queryCodeList
           [] OTHER -> UnknownEndpoint

(* sdkErrors.ABCIInfo and sdk.NewError: the three-field wire error.  An    *)
(* error that is not a registered SDK error gets the internal code, and    *)
(* its message is redacted unless the debug flag is set.                   *)
ABCIInfo(err, dbg) ==
    LET registered == err.kind \in {"ErrUnknownRequest", "ErrInvalidAddress", "ErrJSONMarshal"}
        code == CASE err.kind = "ErrUnknownRequest" -> 6
                  [] err.kind = "ErrInvalidAddress" -> 7
                  [] err.kind = "ErrJSONMarshal" -> 16
                  [] OTHER -> 1
    IN  [codespace |-> IF registered THEN "sdk" ELSE "undefined",
         code |-> code,
         log |-> IF registered \/ dbg THEN err.msg ELSE "internal error"]

NoWireErr == [codespace |-> "", code |-> 0, log |-> ""]

NewQuerier(path, data, smart) ==
    LET q == newQuerier(path, data, smart)
    IN  IF ~q.ret THEN [ret |-> FALSE, res |-> NilBytes, err |-> NoWireErr]
        ELSE IF q.err /= NoErr
        THEN [ret |-> TRUE, res |-> NilBytes, err |-> ABCIInfo(q.err, debug)]
        ELSE [ret |-> TRUE, res |-> q.res, err |-> NoWireErr]

---------------------------------------------------------------------------
(* Message validation (types) *)

MaxWasmSize == 500 * 1024
BuildTagRegex == <<"c", "o", "s", "m", "w", "a", "s", "m", "-", "o", "p", "t", ":">>

ErrInternal(msg) == Err("ErrInternal", msg)
ErrInvalidCoins(msg) == Err("ErrInvalidCoins", msg)

(* net/url.Parse on strings over the characters "h" (a letter), "1" (a     *)
(* digit), ":" and "/": the scheme scan (getScheme), the colon-in-first-   *)
(* segment rule for a URL without scheme, and the port check of an         *)
(* authority.  A string is a sequence of one-character strings.            *)
URLChars == {"h", "1", ":", "/"}

RECURSIVE getSchemeAt(_, _)
getSchemeAt(rawurl, i) ==
    IF i > Len(rawurl) THEN [scheme |-> <<>>, rest |-> rawurl, err |-> FALSE]
    ELSE CASE rawurl[i] = "h" -> getSchemeAt(rawurl, i + 1)
           [] rawurl[i] = "1" ->
                IF i = 1 THEN [scheme |-> <<>>, rest |-> rawurl, err |-> FALSE]
                ELSE getSchemeAt(rawurl, i + 1)
           [] rawurl[i] = ":" ->
                IF i = 1 THEN [scheme |-> <<>>, rest |-> <<>>, err |-> TRUE]
                ELSE [scheme |-> SubSeq(rawurl, 1, i - 1),
                      rest |-> SubSeq(rawurl, i + 1, Len(rawurl)), err |-> FALSE]
           [] OTHER -> [scheme |-> <<>>, rest |-> rawurl, err |-> FALSE]

getScheme(rawurl) == getSchemeAt(rawurl, 1)

(* strings.Index / strings.LastIndex of a character, 0 when absent *)
Index(s, c) ==
    IF \E i \in 1..Len(s) : s[i] = c
    THEN CHOOSE i \in 1..Len(s) : s[i] = c /\ \A j \in 1..(i - 1) : s[j] /= c
    ELSE 0
LastIndex(s, c) ==
    IF \E i \in 1..Len(s) : s[i] = c
    THEN CHOOSE i \in 1..Len(s) : s[i] = c /\ \A j \in (i + 1)..Len(s) : s[j] /= c
    ELSE 0

HasPrefix(s, p) == Len(s) >= Len(p) /\ SubSeq(s, 1, Len(p)) = p

validOptionalPort(host) ==
    LET i == LastIndex(host, ":")
    IN  i = 0 \/ \A j \in (i + 1)..Len(host) : host[j] = "1"

urlParse(rawurl) ==
    LET g == getScheme(rawurl)
        rest == g.rest
        colon == Index(rest, ":")
        slash == Index(rest, "/")
        afterSlashes == SubSeq(rest, 3, Len(rest))
        authEnd == Index(afterSlashes, "/")
        authority == IF authEnd = 0 THEN afterSlashes
                     ELSE SubSeq(afterSlashes, 1, authEnd - 1)
    IN  IF g.err THEN [err |-> TRUE, Scheme |-> <<>>]
        ELSE IF ~HasPrefix(rest, <<"/">>) /\ g.scheme /= <<>>
        THEN [err |-> FALSE, Scheme |-> g.scheme]
        ELSE IF ~HasPrefix(rest, <<"/">>) /\ colon > 0 /\ (slash = 0 \/ colon < slash)
        THEN [err |-> TRUE, Scheme |-> <<>>]
        ELSE IF /\ g.scheme /= <<>> \/ ~HasPrefix(rest, <<"/", "/", "/">>)
                /\ HasPrefix(rest, <<"/", "/">>)
                /\ ~validOptionalPort(authority)
        THEN [err |-> TRUE, Scheme |-> <<>>]
        ELSE [err |-> FALSE, Scheme |-> g.scheme]

IsAbs(u) == u.Scheme /= <<>>

(* regexp.MatchString(BuildTagRegex, s): the pattern is an anchored prefix *)
MatchBuildTag(s) == HasPrefix(s, BuildTagRegex)

StoreCodeBeforeGet_GE(msg) ==
    IF msg.WASMByteCodeLen = 0
    THEN [ret |-> TRUE, get |-> FALSE, err |-> ErrInternal("empty wasm code")]
    ELSE IF msg.WASMByteCodeLen >= MaxWasmSize
    THEN [ret |-> TRUE, get |-> FALSE, err |-> ErrInternal("wasm code too large")]
    ELSE IF msg.Source /= <<>>
    THEN LET u == urlParse(msg.Source)
         IN  IF u.err
             THEN [ret |-> TRUE, get |-> FALSE,
                   err |-> ErrInternal("source should be a valid url")]
             ELSE IF ~IsAbs(u)
             THEN [ret |-> TRUE, get |-> FALSE,
                   err |-> ErrInternal("source should be an absolute url")]
             ELSE [ret |-> FALSE, get |-> TRUE, err |-> NoErr]
    ELSE [ret |-> FALSE, get |-> FALSE, err |-> NoErr]

StoreCodeBeforeGet_NoAbs(msg) ==
    IF msg.WASMByteCodeLen = 0
    THEN [ret |-> TRUE, get |-> FALSE, err |-> ErrInternal("empty wasm code")]
    ELSE IF msg.WASMByteCodeLen > MaxWasmSize
    THEN [ret |-> TRUE, get |-> FALSE, err |-> ErrInternal("wasm code too large")]
    ELSE IF msg.Source /= <<>>
    THEN LET u == urlParse(msg.Source)
         IN  IF u.err
             THEN [ret |-> TRUE, get |-> FALSE,
                   err |-> ErrInternal("source should be a valid url")]
             ELSE [ret |-> FALSE, get |-> TRUE, err |-> NoErr]
    ELSE [ret |-> FALSE, get |-> FALSE, err |-> NoErr]

(* MsgStoreCode.ValidateBasic up to the builder check: it has returned an  *)
(* error (ret), or it is about to call http.Get (get), or there is no      *)
(* source and it goes on to the builder check.                             *)
StoreCodeBeforeGet(msg) ==
    IF msg.WASMByteCodeLen = 0
    THEN [ret |-> TRUE, get |-> FALSE, err |-> ErrInternal("empty wasm code")]
    ELSE IF msg.WASMByteCodeLen > MaxWasmSize
    THEN [ret |-> TRUE, get |-> FALSE, err |-> ErrInternal("wasm code too large")]
    ELSE IF msg.Source /= <<>>
    THEN LET u == urlParse(msg.Source)
         IN  IF u.err
             THEN [ret |-> TRUE, get |-> FALSE,
                   err |-> ErrInternal("source should be a valid url")]
             ELSE IF ~IsAbs(u)
             THEN [ret |-> TRUE, get |-> FALSE,
                   err |-> ErrInternal("source should be an absolute url")]
             ELSE [ret |-> FALSE, get |-> TRUE, err |-> NoErr]
    ELSE [ret |-> FALSE, get |-> FALSE, err |-> NoErr]

(* ... and from the builder check to the end *)
StoreCodeBuilderCheck(msg) ==
    IF msg.Builder /= <<>> /\ ~MatchBuildTag(msg.Builder)
    THEN ErrInternal("invalid tag supplied for builder")
    ELSE NoErr

(* ... and after http.Get returned (resp, err) *)
StoreCodeAfterGet(msg, resp) ==
    IF resp.err \/ resp.StatusCode /= 200
    THEN ErrInternal("source url is not reachable")
    ELSE StoreCodeBuilderCheck(msg)

(* sdk.Coins.IsAnyNegative *)
RECURSIVE IsAnyNegative(_)
IsAnyNegative(coins) ==
    IF coins = <<>> THEN FALSE
    ELSE IF Head(coins).Amount < 0 THEN TRUE
    ELSE IsAnyNegative(Tail(coins))

InstantiateValidateBasic_NotPositive(msg) ==
    IF \E i \in 1..Len(msg.InitFunds) : msg.InitFunds[i].Amount <= 0
    THEN ErrInvalidCoins("negative InitFunds")
    ELSE NoErr

InstantiateValidateBasic(msg) ==
    IF IsAnyNegative(msg.InitFunds) THEN ErrInvalidCoins("negative InitFunds") ELSE NoErr

ExecuteValidateBasic(msg) ==
    IF IsAnyNegative(msg.SentFunds) THEN ErrInvalidCoins("negative SentFunds") ELSE NoErr

---------------------------------------------------------------------------
(* Inputs *)

FirstSegs == {QueryGetContract, QueryListContracts, QueryGetContractState,
              QueryGetCode, QueryListCode, "bogus"}
SecondSegs == AddrStrings \cup CodeIDStrings
ThirdSegs == {QueryMethodContractStateAll, QueryMethodContractStateRaw,
              QueryMethodContractStateSmart, "bogus"}

SegsAt(i) ==
    CASE i = 1 -> FirstSegs
      [] i = 2 -> SecondSegs
      [] i = 3 -> ThirdSegs
      [] OTHER -> {"extra"}

RECURSIVE PathsOfLen(_)
PathsOfLen(n) ==
    IF n = 0 THEN {<<>>}
    ELSE {Append(p, s) : p \in PathsOfLen(n - 1), s \in SegsAt(n)}

Paths == UNION {PathsOfLen(n) : n \in 0..MaxPathLen}

RECURSIVE SeqsOfLen(_, _)
SeqsOfLen(S, n) ==
    IF n = 0 THEN {<<>>}
    ELSE {Append(q, c) : q \in SeqsOfLen(S, n - 1), c \in S}

Sources == UNION {SeqsOfLen(URLChars, n) : n \in 0..MaxSourceLen}

Builders == {<<>>, BuildTagRegex \o <<"0">>, <<"c", "o", "s", "m">>, <<"d", "o", "c", "k", "e", "r">>}

CodeLens == {0, 1, 511999, 512000, 512001}

StoreCodeMsgs ==
    [WASMByteCodeLen : CodeLens, Source : Sources, Builder : Builders]

Amounts == {-1, 0, 1}

CoinsOfLen(n) ==
    {[i \in 1..n |-> [Denom |-> "denom" \o ToString(i), Amount |-> a[i]]] :
        a \in [1..n -> Amounts]}

Funds == UNION {CoinsOfLen(n) : n \in 0..MaxCoins}

Accounts == {TheContract, OtherAccount}
RawMessages == {"{}", "not json"}

InstantiateMsgs ==
    [Sender : Accounts, Code : {0, 1}, InitMsg : RawMessages, InitFunds : Funds]
ExecuteMsgs ==
    [Sender : Accounts, Contract : Accounts, Msg : RawMessages, SentFunds : Funds]

(* What http.Get returns when the remote endpoint answers or the           *)
(* connection fails.  http.Get uses http.DefaultClient, which sets no      *)
(* timeout: when the endpoint accepts the connection and stays silent the  *)
(* call does not return.                                                   *)
HttpResults ==
    { [err |-> TRUE, StatusCode |-> 0],
      [err |-> FALSE, StatusCode |-> 200],
      [err |-> FALSE, StatusCode |-> 404] }

Endpoints == {"answers", "silent"}

---------------------------------------------------------------------------
(* The state machine *)

NoCall == [op |-> "none"]
NoInner == Panicked
NoOut == [ret |-> FALSE, res |-> NilBytes, err |-> NoWireErr]
DefaultSmart == [res |-> Bytes(<<"vm-bytes">>), err |-> NoErr]

UsesSmart(q) == q.klog /= <<>> /\ q.klog[1].op = "QuerySmart"

Init ==
    /\ codeIDs \in SUBSET (1..MaxCodeID)
    /\ storeKeys \in SUBSET (1..MaxKeys)
    /\ pc = "idle"
    /\ call = NoCall
    /\ inner = NoInner
    /\ out = NoOut
    /\ probeIssued = FALSE

(* One call of the sdk.Querier made by NewQuerier. *)
Query ==
    /\ pc = "idle"
    /\ \E path \in Paths, data \in Payloads, smart \in SmartReplies :
        LET q == newQuerier(path, data, smart)
        IN  /\ UsesSmart(q) \/ smart = DefaultSmart
            /\ call' = [op |-> "query", path |-> path, data |-> data, smart |-> smart]
            /\ inner' = q
            /\ out' = NewQuerier(path, data, smart)
            /\ pc' = IF q.ret THEN "done" ELSE "panicked"
    /\ UNCHANGED <<codeIDs, storeKeys, probeIssued>>

(* MsgStoreCode.ValidateBasic, up to its return or up to http.Get. *)
StoreCodeValidateBasic ==
    /\ pc = "idle"
    /\ \E msg \in StoreCodeMsgs, endpoint \in Endpoints :
        LET b == StoreCodeBeforeGet(msg)
        IN  /\ b.get \/ endpoint = "answers"
            /\ call' = [op |-> "store-code", msg |-> msg, endpoint |-> endpoint]
            /\ probeIssued' = b.get
            /\ IF b.ret
               THEN pc' = "done" /\ out' = [ret |-> TRUE, res |-> NilBytes, err |-> b.err]
               ELSE IF b.get
               THEN pc' = "probing" /\ out' = NoOut
               ELSE /\ pc' = "done"
                    /\ out' = [ret |-> TRUE, res |-> NilBytes,
                               err |-> StoreCodeBuilderCheck(msg)]
    /\ inner' = NoInner
    /\ UNCHANGED <<codeIDs, storeKeys>>

(* http.Get returns, and ValidateBasic runs to its end. *)
HttpGetReturns ==
    /\ pc = "probing"
    /\ call.endpoint = "answers"
    /\ \E resp \in HttpResults :
        out' = [ret |-> TRUE, res |-> NilBytes, err |-> StoreCodeAfterGet(call.msg, resp)]
    /\ pc' = "done"
    /\ UNCHANGED <<codeIDs, storeKeys, call, inner, probeIssued>>

MsgInstantiateValidateBasic ==
    /\ pc = "idle"
    /\ \E msg \in InstantiateMsgs :
        /\ call' = [op |-> "instantiate", msg |-> msg]
        /\ out' = [ret |-> TRUE, res |-> NilBytes, err |-> InstantiateValidateBasic(msg)]
    /\ pc' = "done"
    /\ inner' = NoInner
    /\ UNCHANGED <<codeIDs, storeKeys, probeIssued>>

MsgExecuteValidateBasic ==
    /\ pc = "idle"
    /\ \E msg \in ExecuteMsgs :
        /\ call' = [op |-> "execute", msg |-> msg]
        /\ out' = [ret |-> TRUE, res |-> NilBytes, err |-> ExecuteValidateBasic(msg)]
    /\ pc' = "done"
    /\ inner' = NoInner
    /\ UNCHANGED <<codeIDs, storeKeys, probeIssued>>

(* The caller takes the result; the next call may start. *)
Return ==
    /\ pc = "done"
    /\ pc' = "idle"
    /\ call' = NoCall
    /\ inner' = NoInner
    /\ out' = NoOut
    /\ probeIssued' = FALSE
    /\ UNCHANGED <<codeIDs, storeKeys>>

Next ==
    \/ Query
    \/ StoreCodeValidateBasic
    \/ HttpGetReturns
    \/ MsgInstantiateValidateBasic
    \/ MsgExecuteValidateBasic
    \/ Return

Spec == Init /\ [][Next]_vars

---------------------------------------------------------------------------
(* The error kinds of the specification, as the errors the code builds *)

UnknownQueryKind == Err("ErrUnknownRequest", "unknown data query endpoint")
EmptyCode == ErrInternal("empty wasm code")
CodeTooLarge == ErrInternal("wasm code too large")
InvalidSourceURI ==
    {ErrInternal("source should be a valid url"),
     ErrInternal("source should be an absolute url")}
SourceUnreachable == ErrInternal("source url is not reachable")

KnownKinds == {QueryGetContract, QueryListContracts, QueryGetContractState,
               QueryGetCode, QueryListCode}
RequiredSegs(first) ==
    CASE first \in {QueryGetContract, QueryGetCode} -> 1
      [] first = QueryGetContractState -> 2
      [] OTHER -> 0

QueryEnded == call.op = "query" /\ pc \in {"done", "panicked"}
StoreCodeCall == call.op = "store-code"
LenAccepted(n) == n >= 1 /\ n <= 512000
StateQuery(method) ==
    /\ QueryEnded
    /\ Len(call.path) >= 3
    /\ call.path[1] = QueryGetContractState
    /\ call.path[3] = method
    /\ AccAddressFromBech32(call.path[2]).err = NoErr

---------------------------------------------------------------------------
(* C1: for every query path of one or more segments the dispatcher either  *)
(* delegates to the handler of the first segment or fails with             *)
(* UnknownQueryKind - the latter when the first segment is unknown or a    *)
(* required trailing segment is absent - and never faults.                 *)
C1_DispatchesOrUnknownKind ==
    (QueryEnded /\ Len(call.path) >= 1) =>
        /\ inner.ret
        /\ IF \/ call.path[1] \notin KnownKinds
              \/ Len(call.path) < 1 + RequiredSegs(call.path[1])
           THEN inner.err = UnknownQueryKind
           ELSE inner.err /= UnknownQueryKind

(* C2: every handler that takes an address (contract-info; contract-state  *)
(* with any submode) fails with InvalidAddress on an address string that   *)
(* does not decode, without a keeper call and without a fault.             *)
C2_BadAddressIsInvalidAddress ==
    ( /\ QueryEnded
      /\ \/ Len(call.path) >= 2 /\ call.path[1] = QueryGetContract
         \/ Len(call.path) >= 3 /\ call.path[1] = QueryGetContractState
      /\ AccAddressFromBech32(call.path[2]).err /= NoErr ) =>
        /\ inner.ret
        /\ inner.err.kind = "ErrInvalidAddress"
        /\ inner.klog = <<>>

(* C3: without source and builder, StoreCode validation is decided by the  *)
(* bytecode length n alone: 0 gives EmptyCode, 1..512000 is accepted,      *)
(* 512001 and more gives CodeTooLarge.                                     *)
C3_LengthDecides ==
    ( /\ StoreCodeCall /\ pc = "done"
      /\ call.msg.Source = <<>> /\ call.msg.Builder = <<>> ) =>
        out.err = CASE call.msg.WASMByteCodeLen = 0 -> EmptyCode
                    [] LenAccepted(call.msg.WASMByteCodeLen) -> NoErr
                    [] OTHER -> CodeTooLarge

C3_Witness ==
    /\ StoreCodeCall /\ pc = "done"
    /\ call.msg.Source = <<>> /\ call.msg.Builder = <<>>
    /\ call.msg.WASMByteCodeLen = 512000
    /\ out.err = NoErr

(* C4: http.Get is called only after the length checks passed and the      *)
(* non-empty source parsed as an absolute URI; a source without scheme     *)
(* (with an accepted length) ends in InvalidSourceURI with no request      *)
(* made.                                                                   *)
C4_ProbeOnlyAfterChecks ==
    StoreCodeCall =>
        LET m == call.msg
            u == urlParse(m.Source)
        IN  /\ probeIssued =>
                /\ LenAccepted(m.WASMByteCodeLen)
                /\ m.Source /= <<>>
                /\ ~u.err /\ IsAbs(u)
                /\ m.Source[1] = "h" /\ \E i \in 2..Len(m.Source) : m.Source[i] = ":"
            /\ ( /\ pc = "done"
                 /\ LenAccepted(m.WASMByteCodeLen)
                 /\ m.Source /= <<>>
                 /\ \A i \in 1..Len(m.Source) : m.Source[i] /= ":" ) =>
                    out.err \in InvalidSourceURI /\ ~probeIssued
            /\ (pc = "done" /\ ~probeIssued) => out.err /= SourceUnreachable

C4_Witness ==
    /\ StoreCodeCall /\ pc = "done"
    /\ call.msg.WASMByteCodeLen = 1
    /\ call.msg.Source = <<"h", "/">>
    /\ out.err = ErrInternal("source should be an absolute url")
    /\ ~probeIssued

(* C5: StoreCode validation always ends: a validation that has called      *)
(* http.Get never blocks for good - also when the endpoint never answers,  *)
(* a step that ends the call (a timeout, returning SourceUnreachable) can  *)
(* be taken.                                                               *)
C5_ProbeNeverBlocks ==
    (StoreCodeCall /\ pc = "probing") => ENABLED HttpGetReturns

(* The first ID for which the keeper holds no CodeInfo (k+1 in C6). *)
FirstGap ==
    CHOOSE n \in 1..(MaxCodeID + 1) :
        n \notin codeIDs /\ \A i \in 1..(n - 1) : i \in codeIDs

(* C6: the code list handler asks the keeper for IDs 1, 2, ... in order,   *)
(* stops at the first ID k+1 without CodeInfo, asks for no higher ID, and  *)
(* returns the entries of 1..k in order, entry i with id i and that ID's   *)
(* creator and code hash.                                                  *)
C6_CodeListIsPrefix ==
    (QueryEnded /\ Len(call.path) >= 1 /\ call.path[1] = QueryListCode) =>
        /\ inner.ret /\ inner.err = NoErr
        /\ inner.klog = [i \in 1..FirstGap |-> KCall("GetCodeInfo", "", "", i)]
        /\ inner.data.elems =
              [i \in 1..(FirstGap - 1) |->
                  [ID |-> i, Creator |-> CreatorOf(i), CodeHash |-> HashOf(i)]]
        /\ ~inner.res.nil
        /\ out.ret /\ out.res = inner.res

C6_Witness ==
    /\ QueryEnded /\ call.path = <<QueryListCode>>
    /\ codeIDs = {1, 2, 4}
    /\ Len(inner.data.elems) = 2
    /\ inner.data.elems[2].ID = 2

(* C7: for a valid address the "all" submode returns one Model per         *)
(* iterator step, in iterator order, key and value unchanged; with no      *)
(* entries the result is a non-nil empty sequence, written as [].          *)
C7_AllIsIteratorOrder ==
    StateQuery(QueryMethodContractStateAll) =>
        LET addr == AccAddressFromBech32(call.path[2]).addr
            iter == GetContractState(addr)
        IN  /\ inner.ret /\ inner.err = NoErr
            /\ inner.klog = <<KCall("GetContractState", addr, "", 0)>>
            /\ ~inner.data.nil
            /\ inner.data.elems = iter
            /\ ~inner.res.nil /\ inner.res.b /= <<"null">>
            /\ iter = <<>> => inner.res.b = <<"[]">>
            /\ iter /= <<>> => Len(inner.res.b) = 2 + 6 * Len(iter)

C7_Witness ==
    /\ StateQuery(QueryMethodContractStateAll)
    /\ call.path[2] = "cosmos1aaa"
    /\ storeKeys = {}
    /\ inner.res = Bytes(<<"[]">>)

(* C8: for a valid address the "smart" submode passes the payload to       *)
(* QuerySmart unchanged and returns exactly the (bytes, error) QuerySmart  *)
(* gave; json.MarshalIndent is not run.                                    *)
C8_SmartIsVerbatim ==
    StateQuery(QueryMethodContractStateSmart) =>
        /\ inner.ret
        /\ inner.klog = <<KCall("QuerySmart", AccAddressFromBech32(call.path[2]).addr,
                                call.data, 0)>>
        /\ inner.res = call.smart.res
        /\ inner.err = call.smart.err
        /\ ~inner.marshalled

C8_Witness ==
    /\ StateQuery(QueryMethodContractStateSmart)
    /\ call.smart.err = NoErr
    /\ inner.res = Bytes(<<"vm-bytes">>)
    /\ ~inner.marshalled

(* C9: Instantiate and Execute validation fail with NegativeFunds exactly  *)
(* when some amount of the funds is negative, whatever the other fields.   *)
C9_NegativeFundsIff ==
    /\ (call.op = "instantiate" /\ pc = "done") =>
          IF \E i \in 1..Len(call.msg.InitFunds) : call.msg.InitFunds[i].Amount < 0
          THEN out.err.kind = "ErrInvalidCoins"
          ELSE out.err = NoErr
    /\ (call.op = "execute" /\ pc = "done") =>
          IF \E i \in 1..Len(call.msg.SentFunds) : call.msg.SentFunds[i].Amount < 0
          THEN out.err.kind = "ErrInvalidCoins"
          ELSE out.err = NoErr

C9_Witness ==
    /\ call.op = "instantiate" /\ pc = "done"
    /\ Len(call.msg.InitFunds) = 2
    /\ call.msg.InitFunds[1].Amount = 0
    /\ call.msg.InitFunds[2].Amount = -1
    /\ out.err = ErrInvalidCoins("negative InitFunds")

(* C10: for every request the public dispatcher returns one of two         *)
(* outcomes: no bytes and the translated wire error when the handler       *)
(* failed, the handler's bytes and no error when it succeeded.             *)
C10_TwoOutcomes ==
    QueryEnded =>
        /\ out.ret
        /\ inner.err /= NoErr =>
              /\ out.res = NilBytes
              /\ out.err = ABCIInfo(inner.err, debug)
              /\ out.err.code /= 0
        /\ inner.err = NoErr =>
              /\ out.res = inner.res
              /\ out.err = NoWireErr

====
